---- MODULE Spec2Model ----
(***************************************************************************)
(* Model of the autotest execution engine                                  *)
(* (src/src/services/autotest/workflow.py and nodes.py).                   *)
(*                                                                         *)
(* The run state is the AutoTestState dict that the graph nodes pass on.   *)
(* Lists of which the code only reads the last element are kept as that    *)
(* last element: execution_results as last_result, substep_plans as        *)
(* last_plan, page_state_history as last_page.  Confidences are integer    *)
(* percentages (0.7 is 70).  The Planner, Actuator and Store answers are   *)
(* inputs drawn with \E from small sets.                                   *)
(***************************************************************************)
EXTENDS Integers, Sequences, FiniteSets, TLC

\* ---------------------------------------------------------------- bounds
MaxSteps == 2
MaxFailures == 5
MaxNoChange == 3
MaxPages == 2
MaxNodeExecutions == 13
MaxRechecks == 4
MaxCalls == 3
MaxPlans == 3

\* ------------------------------------------------------ program constants
MAX_SUBSTEPS_PER_STEP == 10
FAILURE_BREAKER == 5
FAILURE_ADVANCE == 3
NO_CHANGE_ADVANCE == 3
CONFIDENT == 70
LOW_CONFIDENCE == 60
LOW_CONFIDENCE_FAILURES == 2
STUCK_WINDOW == 3
STUCK_MIN_SUBSTEP == 2
TRACKING_KEEP == 5
FORCED_CONFIDENCE == 50
RECURSION_LIMIT == 100
MAX_WORKERS == 1
DUPLICATE_WINDOW == 3
DUPLICATE_MIN_PLANS == 2
DUPLICATE_THRESHOLD == 2
OVERLAP_NUM == 4
OVERLAP_DEN == 5

VARIABLES
    pc,                     \* the graph node that runs next
    node_executions,        \* graph nodes executed so far in this run
    steps,                  \* state['steps']: one kind per loaded step
    current_step_index,
    current_substep_index,
    completed_steps,        \* list of step indices, in insertion order
    login_completed,
    overall_status,
    error_message,
    consecutive_failures,
    consecutive_no_change,
    last_validation,
    validation_node,        \* the node execution that assigned last_validation
                            \* last: 0 while it is None
    last_result,            \* execution_results[-1]: "none", "ok", "fail"
    results_before,         \* execution_results[:-1]: the success of each entry
    results_kept,           \* whether the model keeps results_before; without
                            \* it the list is followed by its last entry only
    last_plan,              \* substep_plans[-1]: "none", "final", "nonfinal"
    current_substep_id,     \* "none", "id" (a Store id), "mock" (a placeholder)
    page_state_tracking,    \* observation-time window of page ids
    page_stuck_detected,    \* "unset", "yes", "no"
    last_page,              \* page_state_history[-1]: 0 when empty
    history_before,         \* page_state_history[:-1]: the page of each entry
    history_kept,           \* whether the model keeps history_before; without
                            \* it the list is followed by its last entry only
    page,                   \* the page the browser shows: 0 before it starts
    playwright_wrapper,     \* self.playwright_wrapper: "none", "started", "stopped"
    open_resources,         \* Actuator resources open: worker, driver, browser
    login,                  \* the locals auto_login returns with: how its attempt
                            \* loop ended and the login verdict; gone afterwards
    script_stored,          \* the Store holds a script under current_substep_id
    script_run,             \* the script of the current substep: "none", "ran", "not_run"
    decision,               \* last outcome of the Decision Engine
    report_status,          \* status in the dict run() returns
    report_totals,          \* total_steps and total_substeps in that dict
    exec_result,            \* the result dict a script returned, as re-checked
    exec_raw,               \* its success when the script returned it
    plan_check,             \* check_type of the plan's verification: "none"
                            \* without a plan
    clause_holds,           \* whether the verification clause held on the page
                            \* at the last re-check
    rechecks,               \* re-checks applied to exec_result
    bridge_calls,           \* the calls submitted to the executor, in order
    bridge_queue,           \* the executor's work queue: positions in bridge_calls
    bridge_running,         \* per worker thread, the call it runs: 0 when idle
    driver_calls,           \* the calls the sync driver began, in order
    engine_calls,           \* the driver accesses made on the engine's own
                            \* thread, in order
    substep_plans,          \* state['substep_plans'] with the fields of each plan
    new_plan,               \* the plan the Planner returned last, as returned
    plan_flagged,           \* what _is_duplicate_plan answered for new_plan
    scripted_plan,          \* the plan the script of the current substep was
                            \* generated from: NoPlan without a script
    goal_signout            \* the goal of the current step holds a sign-out
                            \* keyword

run_vars == <<pc, node_executions, steps, current_step_index, current_substep_index,
          completed_steps, login_completed, overall_status, error_message,
          consecutive_failures, consecutive_no_change, last_validation,
          last_result, last_plan, current_substep_id, page_state_tracking,
          page_stuck_detected, last_page, page, playwright_wrapper,
          open_resources, login, script_stored, script_run, decision,
          report_status, report_totals, results_before, results_kept,
          history_before,
          history_kept, validation_node>>

verify_vars == <<exec_result, exec_raw, plan_check, clause_holds, rechecks>>

bridge_vars == <<bridge_calls, bridge_queue, bridge_running, driver_calls,
                 engine_calls>>

plan_vars == <<substep_plans, new_plan, plan_flagged, scripted_plan,
               goal_signout>>

vars == <<run_vars, verify_vars, bridge_vars, plan_vars>>

\* ------------------------------------------------------------ value sets
\* The pages the browser can show.  A snapshot of page p holds its url and
\* the hash of its html; pages 1 and 2 share a url, pages 1 and 3 a hash.
Pages == 1..MaxPages

Url(p) == (p + 1) \div 2

HtmlHash(p) == p % 2

NoValidation == [present |-> FALSE, is_completed |-> FALSE, confidence |-> 0]

Verdict(c, p) == [present |-> TRUE, is_completed |-> c, confidence |-> p]

\* Verdicts the validation call can return: one confidence below 0.6, one
\* between 0.6 and 0.7, the threshold itself and one above it.
PlannerVerdicts == {Verdict(c, p) : c \in BOOLEAN, p \in {50, 65, 70, 90}}

ErrorVerdict == Verdict(FALSE, 0)

ForcedVerdict == Verdict(TRUE, FORCED_CONFIDENCE)

Validations == {NoValidation, ErrorVerdict} \cup PlannerVerdicts

\* The steps the Store holds for a test case: n steps, the first of which
\* may be a login step.
StoredSteps(n, firstIsLogin) ==
    [i \in 1..n |-> IF i = 1 /\ firstIsLogin THEN "login" ELSE "other"]

InList(x, list) == \E i \in 1..Len(list) : list[i] = x

\* A plan asks to close the step when its is_final_substep is true; the
\* plan the Planner port substitutes for a failed call ("fallback") does.
IsFinal(plan) == plan \in {"final", "fallback"}

\* login before auto_login has run, or when it skipped
NoLogin == [loop |-> "none", verdict |-> "none"]

\* What a browser session holds open once started.
AllResources == {"worker", "driver", "browser"}

\* How PlaywrightThreadWrapper.start() can end: started, or raised when
\* starting the driver, launching the browser, or opening context and page.
StartOutcomes == {"started", "driver_raised", "launch_raised", "page_raised"}

\* How PlaywrightThreadWrapper.stop() can end.
StopOutcomes == {"closed", "close_raised", "driver_stop_raised"}

\* -------------------------------------------------------- Decision Engine
\* Rule 5 without the stuck-page rule.
ValidationPolicy_NoStuckRule ==
    IF last_validation.is_completed
    THEN "next_step"
    ELSE IF consecutive_failures >= FAILURE_ADVANCE
         THEN "next_step"
         ELSE "continue_substeps"

\* Rule 5: a verdict with confidence >= 0.7 decides.
ValidationPolicy ==
    IF last_validation.is_completed
    THEN "next_step"
    ELSE IF consecutive_no_change >= NO_CHANGE_ADVANCE
         THEN "next_step"
         ELSE IF consecutive_failures >= FAILURE_ADVANCE
              THEN "next_step"
              ELSE IF last_validation.confidence < LOW_CONFIDENCE
                      /\ consecutive_failures >= LOW_CONFIDENCE_FAILURES
                   THEN "next_step"
                   ELSE "continue_substeps"

\* Rules 6 and 7 with a failed substep always retried.
FallbackPolicy_FailuresRetry ==
    IF last_result = "ok" /\ IsFinal(last_plan)
    THEN "next_step"
    ELSE "continue_substeps"

\* Rules 6 and 7 with a final plan advancing whether or not it succeeded.
FallbackPolicy_FinalAlwaysAdvances ==
    IF last_result = "none"
    THEN "continue_substeps"
    ELSE IF last_result = "fail" /\ consecutive_failures >= FAILURE_ADVANCE
         THEN "next_step"
         ELSE IF IsFinal(last_plan)
              THEN "next_step"
              ELSE "continue_substeps"

\* Rules 6 and 7: the last execution result decides.
FallbackPolicy ==
    IF last_result = "none"
    THEN "continue_substeps"
    ELSE IF last_result = "fail"
         THEN IF consecutive_failures >= FAILURE_ADVANCE
              THEN "next_step"
              ELSE IF IsFinal(last_plan)
                   THEN "continue_substeps"
                   ELSE "continue_substeps"
         ELSE IF IsFinal(last_plan)
              THEN "next_step"
              ELSE "continue_substeps"

\* Rule 1: the run is already finished.
FinishedRule ==
    \/ overall_status \in {"completed", "error"}
    \/ current_step_index >= Len(steps)

\* Rules 2 to 4 without the failure circuit breaker.
CeilingRules_NoBreaker ==
    IF current_substep_index >= MAX_SUBSTEPS_PER_STEP
    THEN "next_step"
    ELSE IF InList(current_step_index, completed_steps)
         THEN "finish"
         ELSE "none"

\* Rules 2 to 4 with the circuit breaker tested before the substep ceiling.
CeilingRules_BreakerFirst ==
    IF consecutive_failures >= FAILURE_BREAKER
    THEN "finish"
    ELSE IF current_substep_index >= MAX_SUBSTEPS_PER_STEP
         THEN "next_step"
         ELSE IF InList(current_step_index, completed_steps)
              THEN "finish"
              ELSE "none"

\* Rules 2 to 4 with the substep ceiling one substep later.
CeilingRules_CeilingAtEleven ==
    IF current_substep_index >= MAX_SUBSTEPS_PER_STEP + 1
    THEN "next_step"
    ELSE IF consecutive_failures >= FAILURE_BREAKER
         THEN "finish"
         ELSE IF InList(current_step_index, completed_steps)
              THEN "finish"
              ELSE "none"

\* Rules 2 to 4 without the substep ceiling.
CeilingRules_NoCeiling ==
    IF consecutive_failures >= FAILURE_BREAKER
    THEN "finish"
    ELSE IF InList(current_step_index, completed_steps)
         THEN "finish"
         ELSE "none"

\* Rules 2 to 4, in the order of the code: the substep ceiling, the failure
\* circuit breaker, the already-completed guard.  "none" when none applies.
CeilingRules ==
    IF current_substep_index >= MAX_SUBSTEPS_PER_STEP
    THEN "next_step"
    ELSE IF consecutive_failures >= FAILURE_BREAKER
         THEN "finish"
         ELSE IF InList(current_step_index, completed_steps)
              THEN "finish"
              ELSE "none"

\* _decide_next_action: first match wins.
decide_next_action ==
    IF FinishedRule
    THEN "finish"
    ELSE IF CeilingRules # "none"
         THEN CeilingRules
         ELSE IF last_validation.present
                 /\ last_validation.confidence >= CONFIDENT
              THEN ValidationPolicy
              ELSE FallbackPolicy

\* ------------------------------------------------------------- run state
\* An executor with one worker thread more.
Workers_Two == 1..(MAX_WORKERS + 1)

\* The worker threads of the executor.
Workers == 1..MAX_WORKERS

\* No script has returned a result.
VerifyIdle ==
    /\ exec_result = [success |-> FALSE, verified |-> 0, intermediate |-> FALSE]
    /\ exec_raw = FALSE
    /\ plan_check = "none"
    /\ clause_holds = FALSE
    /\ rechecks = 0

\* A new wrapper: nothing submitted, every worker idle.
BridgeIdle ==
    /\ bridge_calls = <<>>
    /\ bridge_queue = <<>>
    /\ bridge_running = [w \in Workers |-> 0]
    /\ driver_calls = <<>>
    /\ engine_calls = <<>>

\* The plan of no substep: state['substep_plans'] is empty.
NoPlan == [action_type |-> "none", primary_selector |-> "none", words |-> {},
           is_final_substep |-> FALSE, syntax_error |-> FALSE]

\* No substep planned yet in the current step.
PlanIdle ==
    /\ substep_plans = <<>>
    /\ new_plan = NoPlan
    /\ plan_flagged = FALSE
    /\ scripted_plan = NoPlan
    /\ goal_signout = FALSE

\* state['execution_results'], by the success of its entries.
execution_results ==
    IF last_result = "none"
    THEN results_before
    ELSE Append(results_before, last_result = "ok")

\* The results of the login actions auto_login appends before its verdict.
LoginActionResults == {<<>>, <<TRUE>>, <<FALSE>>}

\* The list started afresh by each new result.
Appended_Overwrite(list) == IF results_kept THEN <<>> ELSE results_before

\* results_before after an append of more entries to the list.
Appended(list) == IF results_kept THEN list ELSE results_before

\* state['page_state_history'], by the page of its entries.
page_state_history ==
    IF last_page = 0 THEN history_before ELSE Append(history_before, last_page)

\* The counts of a report that does not exist yet.
NoTotals == [total_steps |-> -1, total_substeps |-> -1]

\* initial_state built by run()
RunIdle ==
    /\ pc = "initialize"
    /\ node_executions = 0
    /\ steps = <<>>
    /\ current_step_index = 0
    /\ current_substep_index = 0
    /\ completed_steps = <<>>
    /\ login_completed = FALSE
    /\ overall_status = "running"
    /\ error_message = "none"
    /\ consecutive_failures = 0
    /\ consecutive_no_change = 0
    /\ last_validation = NoValidation
    /\ validation_node = 0
    /\ last_result = "none"
    /\ last_plan = "none"
    /\ current_substep_id = "none"
    /\ page_state_tracking = <<>>
    /\ page_stuck_detected = "unset"
    /\ last_page = 0
    /\ page = 0
    /\ playwright_wrapper = "none"
    /\ open_resources = {}
    /\ login = NoLogin
    /\ script_stored = FALSE
    /\ script_run = "none"
    /\ decision = "none"
    /\ report_status = "none"
    /\ report_totals = NoTotals
    /\ results_before = <<>>
    /\ results_kept = FALSE
    /\ history_before = <<>>
    /\ history_kept = FALSE

Init == RunIdle /\ VerifyIdle /\ BridgeIdle /\ PlanIdle

\* A graph whose Acting phase leads back to the Observing phase.
GraphEdge_NoValidation(node) ==
    CASE node = "initialize" -> "auto_login"
      [] node = "auto_login" -> "get_context"
      [] node = "get_context" -> "generate_substep"
      [] node = "generate_substep" -> "execute_substep"
      [] node = "execute_substep" -> "get_context"
      [] node = "validate_step" -> "decide"
      [] node = "move_to_next_step" -> "get_context"
      [] node = "continue_substeps" -> "get_context"
      [] node = "cleanup" -> "END"

\* The edges of the graph: what follows a node.  After validate_step comes
\* the conditional edge, which the decide action takes.
GraphEdge(node) ==
    CASE node = "initialize" -> "auto_login"
      [] node = "auto_login" -> "get_context"
      [] node = "get_context" -> "generate_substep"
      [] node = "generate_substep" -> "execute_substep"
      [] node = "execute_substep" -> "validate_step"
      [] node = "validate_step" -> "decide"
      [] node = "move_to_next_step" -> "get_context"
      [] node = "continue_substeps" -> "get_context"
      [] node = "cleanup" -> "END"

\* A graph node runs only while the recursion limit allows one more node.
\* The model follows the first MaxNodeExecutions nodes of a run and the last
\* MaxNodeExecutions nodes before the recursion limit.
NodeRuns(node, next) ==
    /\ pc = node
    /\ node_executions < RECURSION_LIMIT
    /\ \/ node_executions < MaxNodeExecutions
       \/ node_executions >= RECURSION_LIMIT - MaxNodeExecutions
    /\ node_executions' = node_executions + 1
    /\ pc' = next

\* The resources PlaywrightThreadWrapper.start() leaves open: the worker
\* thread of its executor, the driver, the browser.  A start that raises
\* part-way closes nothing of what it opened.
ResourcesAfterStart(start) ==
    CASE start = "started" -> AllResources
      [] start = "driver_raised" -> {"worker"}
      [] start = "launch_raised" -> {"worker", "driver"}
      [] start = "page_raised" -> AllResources

\* Node 1: load test case, steps and login info, start the browser.
initialize ==
    /\ NodeRuns("initialize", GraphEdge("initialize"))
    /\ \E test_case_found \in BOOLEAN, n \in 0..MaxSteps, firstIsLogin \in BOOLEAN,
          login_info_found \in BOOLEAN, start \in StartOutcomes :
          IF test_case_found /\ n > 0 /\ login_info_found /\ start = "started"
          THEN /\ steps' = StoredSteps(n, firstIsLogin)
               /\ playwright_wrapper' = "started"
               /\ open_resources' = ResourcesAfterStart(start)
               /\ page' = 1
               /\ current_step_index' = 0
               /\ current_substep_index' = 0
               /\ login_completed' = FALSE
               /\ overall_status' = "running"
               /\ last_plan' = "none"
               /\ last_result' = "none"
               /\ UNCHANGED error_message
          ELSE /\ overall_status' = "error"
               /\ error_message' = "initialize"
               /\ open_resources' =
                     IF test_case_found /\ n > 0 /\ login_info_found
                     THEN ResourcesAfterStart(start) ELSE open_resources
               /\ UNCHANGED <<steps, playwright_wrapper, page,
                              current_step_index, current_substep_index,
                              login_completed, last_plan, last_result>>
    /\ UNCHANGED <<login, script_stored, script_run,
                   completed_steps, consecutive_failures, consecutive_no_change,
                   last_validation, current_substep_id, page_state_tracking,
                   page_stuck_detected, last_page, decision, report_status,
                   report_totals>>
    /\ UNCHANGED <<results_before, results_kept, history_before, history_kept,
                   validation_node, verify_vars, bridge_vars, plan_vars>>

\* The login-step skip at the end of a login attempt that did not raise.
\* The login skip recording the step number instead of the step index.
LoginSkipCompleted_StepNumber ==
    IF steps[1] = "login" /\ ~InList(1, completed_steps)
    THEN Append(completed_steps, 1)
    ELSE completed_steps

LoginSkipCompleted ==
    IF steps[1] = "login" /\ ~InList(0, completed_steps)
    THEN Append(completed_steps, 0)
    ELSE completed_steps

\* The login skip writing the step number instead of the step index.
LoginSkipIndex_StepNumber ==
    IF steps[1] = "login" THEN 2 ELSE current_step_index

LoginSkipIndex ==
    IF steps[1] = "login" THEN 1 ELSE current_step_index

\* error_message with only a login that raised recorded.
LoginErrorMessage_RaisedOnly(l, old) ==
    IF l.loop = "raised" THEN "login_failed" ELSE old

\* error_message after the login sub-protocol: a raise and a not-logged-in
\* verdict are recorded, anything else leaves the message alone.
LoginErrorMessage(l, old) ==
    IF l.loop = "raised"
    THEN "login_failed"
    ELSE IF l.verdict = "not_logged_in" THEN "login_uncertain" ELSE old

\* The last ExecResult auto_login appends when it can save its records.
LoginResult(l) ==
    IF l.loop # "raised" /\ l.verdict = "logged_in" THEN "ok" ELSE "fail"

\* Node 2: log in.  The attempt loop ends when the Planner reports the login
\* completed or after its 15 attempts; the login verdict is asked either way.
auto_login ==
    /\ NodeRuns("auto_login", GraphEdge("auto_login"))
    /\ IF overall_status = "error"
       THEN UNCHANGED <<login_completed, error_message, last_result,
                        completed_steps, current_step_index, page, login,
                        results_before>>
       ELSE \E loop \in {"completed", "exhausted", "raised"},
               verdict \in {"logged_in", "not_logged_in"},
               saved \in BOOLEAN, p \in Pages,
               actions \in LoginActionResults :
               /\ results_before' =
                     IF ~saved
                     THEN results_before
                     ELSE IF loop = "raised"
                     THEN Appended(execution_results)
                     ELSE Appended(execution_results \o actions)
               /\ login' = [loop |-> loop,
                            verdict |-> IF loop = "raised" THEN "none" ELSE verdict]
               /\ login_completed' = TRUE
               /\ page' = p
               /\ error_message' = LoginErrorMessage(login', error_message)
               /\ last_result' = IF saved THEN LoginResult(login') ELSE last_result
               /\ IF loop = "raised"
                  THEN UNCHANGED <<completed_steps, current_step_index>>
                  ELSE /\ completed_steps' = LoginSkipCompleted
                       /\ current_step_index' = LoginSkipIndex
    /\ UNCHANGED <<script_stored, script_run,
                   steps, current_substep_index, overall_status,
                   consecutive_failures, consecutive_no_change, last_validation,
                   last_plan, current_substep_id, page_state_tracking,
                   page_stuck_detected, last_page, playwright_wrapper,
                   open_resources, decision,
                   report_status,
                   report_totals>>
    /\ UNCHANGED <<results_kept, history_before, history_kept,
                   validation_node, verify_vars, bridge_vars, plan_vars>>

\* The last n elements of a list.
LastN(list, n) ==
    IF Len(list) <= n THEN list ELSE SubSeq(list, Len(list) - n + 1, Len(list))

\* The stuck flag computed from the urls of the last 3 snapshots alone.
StuckFlag_UrlOnly(tracking, old) ==
    IF Len(tracking) >= STUCK_WINDOW
    THEN LET last_3 == LastN(tracking, STUCK_WINDOW)
             urls == {Url(last_3[i]) : i \in 1..STUCK_WINDOW}
         IN  IF Cardinality(urls) = 1 THEN "yes" ELSE "no"
    ELSE old

\* The stuck flag after an observation: set only with 3 snapshots at hand,
\* true when they hold one url and one html hash.
StuckFlag(tracking, old) ==
    IF Len(tracking) >= STUCK_WINDOW
    THEN LET last_3 == LastN(tracking, STUCK_WINDOW)
             urls == {Url(last_3[i]) : i \in 1..STUCK_WINDOW}
             hashes == {HtmlHash(last_3[i]) : i \in 1..STUCK_WINDOW}
         IN  IF Cardinality(urls) = 1 /\ Cardinality(hashes) = 1
             THEN "yes" ELSE "no"
    ELSE old

\* Node 3: observe the page and recompute the stuck flag.
get_current_context ==
    /\ NodeRuns("get_context", GraphEdge("get_context"))
    /\ IF overall_status = "completed" \/ current_step_index >= Len(steps)
       THEN UNCHANGED <<page_state_tracking, page_stuck_detected>>
       ELSE \E observed \in BOOLEAN :
               IF observed
               THEN /\ page_state_tracking' =
                          LastN(Append(page_state_tracking, page), TRACKING_KEEP)
                    /\ page_stuck_detected' =
                          StuckFlag(page_state_tracking', page_stuck_detected)
               ELSE UNCHANGED <<page_state_tracking, page_stuck_detected>>
    /\ login' = NoLogin
    /\ UNCHANGED <<script_stored, script_run,
                   steps, current_step_index, current_substep_index,
                   completed_steps, login_completed, overall_status,
                   error_message, consecutive_failures, consecutive_no_change,
                   last_validation, last_result, last_plan, current_substep_id,
                   last_page, page, playwright_wrapper,
                   open_resources, decision, report_status,
                   report_totals>>
    /\ UNCHANGED <<results_before, results_kept, history_before, history_kept,
                   validation_node, verify_vars, bridge_vars, plan_vars>>

\* What the plan call hands to the Planning phase: a plan of the Planner,
\* final or not, the fallback plan the port returns when the call failed or
\* its answer was not JSON, or a plan the phase cannot read (it raises).
PlanOutcomes == {"final", "nonfinal", "fallback", "plan_raised"}

\* The identifier of the planned substep: the Store's, or a placeholder
\* when create_substep failed.
SubstepId(substep_created) == IF substep_created THEN "id" ELSE "mock"

\* What the Planning phase leaves in the state.  The plan is appended once
\* its substep is created (in the Store, or as a placeholder); the substep
\* id is set once its script is written and created (in the Store, or as a
\* placeholder the Store does not hold).  A raise anywhere sets the error.
PlanningOutcomes ==
    {IF plan = "plan_raised"
     THEN [raised |-> TRUE, last_plan |-> last_plan,
           current_substep_id |-> current_substep_id,
           script_stored |-> script_stored, script_run |-> script_run]
     ELSE IF script = "script_raised"
     THEN [raised |-> TRUE, last_plan |-> plan,
           current_substep_id |-> current_substep_id,
           script_stored |-> script_stored, script_run |-> script_run]
     ELSE [raised |-> FALSE, last_plan |-> plan,
           current_substep_id |-> SubstepId(substep_created),
           script_stored |-> script_created, script_run |-> "none"] :
        plan \in PlanOutcomes, substep_created \in BOOLEAN,
        script \in {"generated", "script_raised"}, script_created \in BOOLEAN}

\* Node 4: plan the next substep of the current step.
generate_next_substep ==
    /\ NodeRuns("generate_substep", GraphEdge("generate_substep"))
    /\ IF overall_status = "completed" \/ current_step_index >= Len(steps)
       THEN /\ overall_status' = "completed"
            /\ UNCHANGED <<error_message, last_validation, validation_node, last_plan,
                           current_substep_id, script_stored, script_run>>
       ELSE IF InList(current_step_index, completed_steps)
       THEN /\ overall_status' = "error"
            /\ error_message' = "already_completed"
            /\ UNCHANGED <<last_validation, validation_node, last_plan, current_substep_id,
                           script_stored, script_run>>
       ELSE IF page_stuck_detected = "yes"
               /\ current_substep_index >= STUCK_MIN_SUBSTEP
       THEN /\ last_validation' = ForcedVerdict
            /\ validation_node' = node_executions + 1
            /\ UNCHANGED <<overall_status, error_message, last_plan,
                           current_substep_id, script_stored, script_run>>
       ELSE \E planned \in PlanningOutcomes :
               /\ last_plan' = planned.last_plan
               /\ current_substep_id' = planned.current_substep_id
               /\ script_stored' = planned.script_stored
               /\ script_run' = planned.script_run
               /\ overall_status' =
                     IF planned.raised THEN "error" ELSE overall_status
               /\ error_message' =
                     IF planned.raised THEN "generation" ELSE error_message
               /\ UNCHANGED <<last_validation, validation_node>>
    /\ UNCHANGED <<login,
                   steps, current_step_index, current_substep_index,
                   completed_steps, login_completed, consecutive_failures,
                   consecutive_no_change, last_result, page_state_tracking,
                   page_stuck_detected, last_page, page, playwright_wrapper,
                   open_resources,
                   decision, report_status,
                   report_totals>>
    /\ UNCHANGED <<results_before, results_kept, history_before, history_kept,
                   verify_vars, bridge_vars, plan_vars>>

\* The verification clauses the post-action re-check knows, and any other.
CheckTypes == {"url_contains", "element_visible", "element_not_visible", "other"}

\* Post-action re-verification writing the outcome of the re-check into the
\* result, whatever the result was.
PostVerified_Overwrite(success, has_plan, check_type, holds) ==
    IF has_plan /\ check_type # "other" THEN holds ELSE success

\* Post-action re-verification: the success of a result after the re-check
\* of the plan's verification clause; holds tells whether the clause holds
\* on the page now.
PostVerified(success, has_plan, check_type, holds) ==
    IF ~success /\ has_plan
    THEN IF check_type # "other" /\ holds THEN TRUE ELSE success
    ELSE success

\* What running the stored script leaves in the state.  The script returns
\* a result (raw), which the re-check may upgrade, and the counter follows
\* the result; a raise before the result (a script that does not compile or
\* lacks its function, or the function raising) or after the counter update
\* (saving the result) ends in the except path, which records a failure.
ScriptOutcomes ==
    {LET success == PostVerified(raw, last_plan # "none", check_type, holds)
     IN  IF raised = "before_result"
         THEN [last_result |-> "fail",
               script_run |-> IF ran THEN "ran" ELSE "not_run",
               page |-> IF ran THEN p ELSE page,
               consecutive_failures |-> consecutive_failures]
         ELSE [last_result |-> IF success /\ raised = "no" THEN "ok" ELSE "fail",
               script_run |-> "ran",
               page |-> p,
               consecutive_failures |->
                   IF success THEN 0 ELSE consecutive_failures + 1] :
        raw \in BOOLEAN, raised \in {"no", "before_result", "after_counter"},
        check_type \in CheckTypes, holds \in BOOLEAN, ran \in BOOLEAN,
        p \in Pages}

\* Node 5: run the script of the current substep and record its result.
execute_substep ==
    /\ NodeRuns("execute_substep", GraphEdge("execute_substep"))
    /\ IF overall_status \in {"completed", "error"}
       THEN UNCHANGED <<overall_status, error_message, consecutive_failures,
                        last_result, page, script_run, results_before>>
       ELSE IF current_step_index >= Len(steps)
       THEN /\ overall_status' = "completed"
            /\ UNCHANGED <<error_message, consecutive_failures, last_result,
                           page, script_run, results_before>>
       ELSE IF consecutive_failures >= FAILURE_BREAKER
       THEN /\ overall_status' = "error"
            /\ error_message' = "failures"
            /\ UNCHANGED <<consecutive_failures, last_result, page,
                           script_run, results_before>>
       ELSE IF current_substep_id = "none"
       THEN /\ overall_status' = "completed"
            /\ UNCHANGED <<error_message, consecutive_failures, last_result,
                           page, script_run, results_before>>
       ELSE IF ~script_stored
       THEN \* get_generated_script finds nothing: the except path records a
            \* failure and the script is never run
            /\ last_result' = "fail"
            /\ results_before' = Appended(execution_results)
            /\ script_run' = "not_run"
            /\ UNCHANGED <<overall_status, error_message,
                           consecutive_failures, page>>
       ELSE \E acted \in ScriptOutcomes :
               /\ last_result' = acted.last_result
               /\ results_before' = Appended(execution_results)
               /\ script_run' = acted.script_run
               /\ page' = acted.page
               /\ consecutive_failures' = acted.consecutive_failures
               /\ UNCHANGED <<overall_status, error_message>>
    /\ UNCHANGED <<login, script_stored,
                   steps, current_step_index, current_substep_index,
                   completed_steps, login_completed, consecutive_no_change,
                   last_validation, last_plan, current_substep_id,
                   page_state_tracking, page_stuck_detected, last_page,
                   playwright_wrapper,
                   open_resources, decision, report_status,
                   report_totals>>
    /\ UNCHANGED <<results_kept, history_before, history_kept,
                   validation_node, verify_vars, bridge_vars, plan_vars>>

\* The counter with a first validation that counts as unchanged.
NoChangeAfter_FirstCounts(p) ==
    IF last_page = 0 \/ (Url(last_page) = Url(p) /\ HtmlHash(last_page) = HtmlHash(p))
    THEN consecutive_no_change + 1
    ELSE 0

\* consecutive_no_change after a validation that observes page p
NoChangeAfter(p) ==
    IF last_page = 0
    THEN consecutive_no_change
    ELSE IF Url(last_page) = Url(p) /\ HtmlHash(last_page) = HtmlHash(p)
         THEN consecutive_no_change + 1
         ELSE 0

\* Node 6: ask for a verdict on the current step.
\* The override applied whatever the confidence of the verdict.
ValidationOverride_AnyConfidence(result, v) ==
    IF result = "fail" /\ v.is_completed THEN "ok" ELSE result

\* The last ExecResult after a verdict: a completed verdict of confidence
\* 0.7 or more turns a failure into a success.
ValidationOverride(result, v) ==
    IF result = "fail" /\ v.confidence >= CONFIDENT /\ v.is_completed
    THEN "ok"
    ELSE result

\* An except handler of validate_step that only logs the error.
ErrorWritten_KeepsVerdict(old) == [verdict |-> old, written |-> FALSE]

\* The except handler of validate_step: the error verdict replaces whatever
\* last_validation held.
ErrorWritten(old) == [verdict |-> ErrorVerdict, written |-> TRUE]

validate_step ==
    /\ NodeRuns("validate_step", GraphEdge("validate_step"))
    /\ IF overall_status \in {"completed", "error"}
          \/ current_step_index >= Len(steps)
       THEN UNCHANGED <<consecutive_no_change, last_validation,
                        validation_node, last_page,
                        history_before, last_result, consecutive_failures>>
       ELSE \E outcome \in {"page_raised", "verdict_raised", "verdict"},
               v \in PlannerVerdicts :
               IF outcome = "page_raised"
               THEN /\ last_validation' = ErrorWritten(last_validation).verdict
                    /\ validation_node' =
                          IF ErrorWritten(last_validation).written
                          THEN node_executions + 1 ELSE validation_node
                    /\ UNCHANGED <<consecutive_no_change, last_page,
                                   history_before, last_result,
                                   consecutive_failures>>
               ELSE /\ consecutive_no_change' = NoChangeAfter(page)
                    /\ last_page' = page
                    /\ history_before' = IF history_kept THEN page_state_history
                                          ELSE history_before
                    /\ IF last_page # 0
                          /\ Url(last_page) = Url(page)
                          /\ HtmlHash(last_page) = HtmlHash(page)
                          /\ consecutive_no_change' >= NO_CHANGE_ADVANCE
                       THEN /\ last_validation' = ForcedVerdict
                            /\ validation_node' = node_executions + 1
                            /\ UNCHANGED <<last_result, consecutive_failures>>
                       ELSE IF outcome = "verdict_raised"
                       THEN /\ last_validation' = ErrorWritten(last_validation).verdict
                            /\ validation_node' =
                                  IF ErrorWritten(last_validation).written
                                  THEN node_executions + 1 ELSE validation_node
                            /\ UNCHANGED <<last_result, consecutive_failures>>
                       ELSE /\ last_validation' = v
                            /\ validation_node' = node_executions + 1
                            /\ last_result' = ValidationOverride(last_result, v)
                            /\ consecutive_failures' =
                                  IF last_result' # last_result
                                  THEN 0 ELSE consecutive_failures
    /\ UNCHANGED <<login, script_stored, script_run,
                   steps, current_step_index, current_substep_index,
                   completed_steps, login_completed, overall_status,
                   error_message, last_plan, current_substep_id,
                   page_state_tracking, page_stuck_detected, page, playwright_wrapper,
                   open_resources,
                   decision, report_status,
                   report_totals>>
    /\ UNCHANGED <<results_before, results_kept, history_kept,
                   verify_vars, bridge_vars, plan_vars>>

\* A conditional edge that marks the step completed when it advances.
decide_MarksStep ==
    /\ pc = "decide"
    /\ decision' = decide_next_action
    /\ pc' = CASE decision' = "continue_substeps" -> "continue_substeps"
               [] decision' = "next_step" -> "move_to_next_step"
               [] decision' = "finish" -> "cleanup"
    /\ completed_steps' =
          IF decision' = "next_step"
             /\ ~InList(current_step_index, completed_steps)
          THEN Append(completed_steps, current_step_index)
          ELSE completed_steps
    /\ UNCHANGED <<login, script_stored, script_run,
                   node_executions, steps, current_step_index,
                   current_substep_index, login_completed,
                   overall_status, error_message, consecutive_failures,
                   consecutive_no_change, last_validation, last_result,
                   last_plan, current_substep_id, page_state_tracking,
                   page_stuck_detected, last_page, page, playwright_wrapper,
                   open_resources,
                   report_status,
                   report_totals>>
    /\ UNCHANGED <<results_before, results_kept, history_before, history_kept,
                   validation_node, verify_vars, bridge_vars, plan_vars>>

\* The conditional edge after validate_step: evaluate the Decision Engine
\* and route to the node it names.  The state itself is left alone.
decide ==
    /\ pc = "decide"
    /\ decision' = decide_next_action
    /\ pc' = CASE decision' = "continue_substeps" -> "continue_substeps"
               [] decision' = "next_step" -> "move_to_next_step"
               [] decision' = "finish" -> "cleanup"
    /\ UNCHANGED <<login, script_stored, script_run,
                   node_executions, steps, current_step_index,
                   current_substep_index, completed_steps, login_completed,
                   overall_status, error_message, consecutive_failures,
                   consecutive_no_change, last_validation, last_result,
                   last_plan, current_substep_id, page_state_tracking,
                   page_stuck_detected, last_page, page, playwright_wrapper,
                   open_resources,
                   report_status,
                   report_totals>>
    /\ UNCHANGED <<results_before, results_kept, history_before, history_kept,
                   validation_node, verify_vars, bridge_vars, plan_vars>>

\* Helper node: one more substep of the same step.
continue_substeps ==
    /\ NodeRuns("continue_substeps", GraphEdge("continue_substeps"))
    /\ IF overall_status \in {"completed", "error"}
       THEN UNCHANGED <<overall_status, current_substep_index>>
       ELSE IF current_step_index >= Len(steps)
       THEN /\ overall_status' = "completed"
            /\ UNCHANGED current_substep_index
       ELSE /\ current_substep_index' = current_substep_index + 1
            /\ UNCHANGED overall_status
    /\ UNCHANGED <<login, script_stored, script_run,
                   steps, current_step_index, completed_steps, login_completed,
                   error_message, consecutive_failures, consecutive_no_change,
                   last_validation, last_result, last_plan, current_substep_id,
                   page_state_tracking, page_stuck_detected, last_page, page,
                   playwright_wrapper,
                   open_resources, decision, report_status,
                   report_totals>>
    /\ UNCHANGED <<results_before, results_kept, history_before, history_kept,
                   validation_node, verify_vars, bridge_vars, plan_vars>>

\* Marking a step by overwriting the list instead of appending to it.
MarkCompleted_Overwrite(idx, completed) == <<idx>>

\* The current step marked as completed, unless it already is.
MarkCompleted(idx, completed) ==
    IF InList(idx, completed) THEN completed ELSE Append(completed, idx)

\* The skip loop: the first index from idx on that is not completed.
RECURSIVE SkipCompleted(_, _, _)
SkipCompleted(idx, completed, n) ==
    IF idx < n /\ InList(idx, completed)
    THEN SkipCompleted(idx + 1, completed, n)
    ELSE idx

\* A step advance that keeps the plans of the step it leaves.
StepAdvanceReset_KeepsPlans ==
    [current_substep_index |-> 0,
     last_plan |-> last_plan,
     consecutive_failures |-> 0,
     current_substep_id |-> "none"]

\* The substep state a step advance starts the next step with.
StepAdvanceReset ==
    [current_substep_index |-> 0,
     last_plan |-> "none",
     consecutive_failures |-> 0,
     current_substep_id |-> "none"]

\* Helper node: close the current step and move to the next one.
move_to_next_step ==
    /\ NodeRuns("move_to_next_step", GraphEdge("move_to_next_step"))
    /\ completed_steps' = MarkCompleted(current_step_index, completed_steps)
    /\ current_step_index' =
          SkipCompleted(current_step_index + 1, completed_steps', Len(steps))
    /\ current_substep_index' = StepAdvanceReset.current_substep_index
    /\ last_plan' = StepAdvanceReset.last_plan
    /\ consecutive_failures' = StepAdvanceReset.consecutive_failures
    /\ current_substep_id' = StepAdvanceReset.current_substep_id
    /\ script_stored' = FALSE
    /\ script_run' = "none"
    /\ overall_status' = IF current_step_index' >= Len(steps)
                         THEN "completed" ELSE overall_status
    /\ UNCHANGED <<login,
                   steps, login_completed, error_message,
                   consecutive_no_change, last_validation, last_result,
                   page_state_tracking, page_stuck_detected, last_page, page,
                   playwright_wrapper,
                   open_resources, decision, report_status,
                   report_totals>>
    /\ UNCHANGED <<results_before, results_kept, history_before, history_kept,
                   validation_node, verify_vars, bridge_vars, plan_vars>>

\* The terminal status cleanup computes from the status it finds.
FinalStatus ==
    IF overall_status = "error"
    THEN "error"
    ELSE IF overall_status = "completed"
         THEN IF Len(completed_steps) >= Len(steps) THEN "passed" ELSE "failed"
         ELSE "failed"

\* The resources PlaywrightThreadWrapper.stop() leaves open: it closes the
\* browser, then stops the driver, then shuts the executor down; a step that
\* raises skips the ones after it.
ResourcesAfterStop(stop) ==
    CASE stop = "closed" -> {}
      [] stop = "close_raised" -> open_resources
      [] stop = "driver_stop_raised" -> open_resources \ {"browser"}

\* Final node: close the browser session, then compute the final status.
\* A close that raises is caught and skips the status computation.
cleanup ==
    /\ NodeRuns("cleanup", GraphEdge("cleanup"))
    /\ \E stop \in StopOutcomes :
          IF playwright_wrapper = "started"
          THEN /\ open_resources' = ResourcesAfterStop(stop)
               /\ IF stop = "closed"
                  THEN /\ playwright_wrapper' = "stopped"
                       /\ overall_status' = FinalStatus
                  ELSE UNCHANGED <<overall_status, playwright_wrapper>>
          ELSE /\ overall_status' = FinalStatus
               /\ UNCHANGED <<playwright_wrapper, open_resources>>
    /\ UNCHANGED <<login, script_stored, script_run,
                   steps, current_step_index, current_substep_index,
                   completed_steps, login_completed, error_message,
                   consecutive_failures, consecutive_no_change, last_validation,
                   last_result, last_plan, current_substep_id,
                   page_state_tracking, page_stuck_detected, last_page, page,
                   decision, report_status,
                   report_totals>>
    /\ UNCHANGED <<results_before, results_kept, history_before, history_kept,
                   validation_node, verify_vars, bridge_vars, plan_vars>>

\* run(): the counts of the report built from the final state.  The substeps
\* are counted where the model keeps the whole of execution_results, and are
\* -1 (not counted) where it keeps the last entry only.
FinalTotals ==
    [total_steps |-> Len(steps),
     total_substeps |-> IF results_kept THEN Len(execution_results) ELSE -1]

\* run(): the graph ended; the report carries the final state's status.
run_return ==
    /\ pc = "END"
    /\ pc' = "returned"
    /\ report_status' = overall_status
    /\ report_totals' = FinalTotals
    /\ UNCHANGED <<login, script_stored, script_run,
                   node_executions, steps, current_step_index,
                   current_substep_index, completed_steps, login_completed,
                   overall_status, error_message, consecutive_failures,
                   consecutive_no_change, last_validation, last_result,
                   last_plan, current_substep_id, page_state_tracking,
                   page_stuck_detected, last_page, page, playwright_wrapper,
                   open_resources,
                   decision>>
    /\ UNCHANGED <<results_before, results_kept, history_before, history_kept,
                   validation_node, verify_vars, bridge_vars, plan_vars>>

\* The nodes of the graph; the decision is an edge, not a node.
GraphNodes == {"initialize", "auto_login", "get_context", "generate_substep",
               "execute_substep", "validate_step", "continue_substeps",
               "move_to_next_step", "cleanup"}

\* run(): the graph needs one more node than the recursion limit allows and
\* the invocation raises.
run_recursion_error ==
    /\ pc \in GraphNodes
    /\ node_executions >= RECURSION_LIMIT
    /\ pc' = "except"
    /\ UNCHANGED <<node_executions, steps, current_step_index,
                   current_substep_index, completed_steps, login_completed,
                   overall_status, error_message, consecutive_failures,
                   consecutive_no_change, last_validation, last_result,
                   last_plan, current_substep_id, page_state_tracking,
                   page_stuck_detected, last_page, page, playwright_wrapper,
                   open_resources, login, script_stored, script_run, decision,
                   report_status,
                   report_totals>>
    /\ UNCHANGED <<results_before, results_kept, history_before, history_kept,
                   validation_node, verify_vars, bridge_vars, plan_vars>>

ErrorTotals_FromState == [total_steps |-> Len(steps), total_substeps |-> 0]

\* run(): the counts of the report the except clause returns.
ErrorTotals == [total_steps |-> 0, total_substeps |-> 0]

\* run(): the except clause calls cleanup on initial_state, swallowing what
\* it raises, and returns a report with status error.
run_except ==
    /\ pc = "except"
    /\ pc' = "returned"
    /\ report_status' = "error"
    /\ report_totals' = ErrorTotals
    /\ \E stop \in StopOutcomes :
          IF playwright_wrapper = "started"
          THEN /\ open_resources' = ResourcesAfterStop(stop)
               /\ playwright_wrapper' =
                     IF stop = "closed" THEN "stopped" ELSE playwright_wrapper
          ELSE UNCHANGED <<playwright_wrapper, open_resources>>
    /\ UNCHANGED <<node_executions, steps, current_step_index,
                   current_substep_index, completed_steps, login_completed,
                   overall_status, error_message, consecutive_failures,
                   consecutive_no_change, last_validation, last_result,
                   last_plan, current_substep_id, page_state_tracking,
                   page_stuck_detected, last_page, page, login, script_stored,
                   script_run, decision>>
    /\ UNCHANGED <<results_before, results_kept, history_before, history_kept,
                   validation_node, verify_vars, bridge_vars, plan_vars>>

Next ==
    \/ initialize
    \/ auto_login
    \/ get_current_context
    \/ generate_next_substep
    \/ execute_substep
    \/ validate_step
    \/ decide
    \/ continue_substeps
    \/ move_to_next_step
    \/ cleanup
    \/ run_return

Spec == Init /\ [][Next]_vars


\* ------------------------------------------- the Decision Engine on its own
\* _decide_next_action is a function of the run state alone.  DecideSpec
\* applies it to every state of the AutoTestState type within the bounds,
\* then runs the node it routes to.
SubstepSamples == {0, MAX_SUBSTEPS_PER_STEP - 1, MAX_SUBSTEPS_PER_STEP,
                   MAX_SUBSTEPS_PER_STEP + 1}

RECURSIVE SortedList(_)
SortedList(S) ==
    IF S = {}
    THEN <<>>
    ELSE LET m == CHOOSE x \in S : \A y \in S : x <= y
         IN  <<m>> \o SortedList(S \ {m})

DecideInit ==
    /\ pc = "decide"
    /\ node_executions = 0
    /\ \E n \in 0..MaxSteps :
          /\ steps = StoredSteps(n, FALSE)
          /\ current_step_index \in 0..n
          /\ completed_steps \in {SortedList(S) : S \in SUBSET (0..(n - 1))}
    /\ current_substep_index \in SubstepSamples
    /\ overall_status \in {"running", "completed", "error"}
    /\ consecutive_failures \in 0..MaxFailures
    /\ consecutive_no_change \in 0..MaxNoChange
    /\ last_validation \in Validations
    /\ validation_node = IF last_validation.present THEN node_executions ELSE 0
    /\ last_result \in {"none", "ok", "fail"}
    /\ last_plan \in {"none", "final", "nonfinal", "fallback"}
    /\ login_completed = TRUE
    /\ error_message = "none"
    /\ current_substep_id = "id"
    /\ page_state_tracking = <<>>
    /\ page_stuck_detected = "unset"
    /\ last_page = 0
    /\ page = 1
    /\ playwright_wrapper = "started"
    /\ open_resources = AllResources
    /\ login = NoLogin
    /\ script_stored = TRUE
    /\ script_run = "ran"
    /\ decision = "none"
    /\ report_status = "none"
    /\ report_totals = NoTotals
    /\ results_before = <<>>
    /\ results_kept = FALSE
    /\ history_before = <<>>
    /\ history_kept = FALSE
    /\ VerifyIdle
    /\ BridgeIdle
    /\ PlanIdle

DecideNext ==
    \/ decide
    \/ continue_substeps
    \/ move_to_next_step
    \/ cleanup
    \/ run_return

DecideSpec == DecideInit /\ [][DecideNext]_vars

\* ------------------------------------------- the end of a long run
\* LimitSpec follows the end of a run that comes close to the recursion
\* limit, from the states validate_step can start in 5 nodes before the limit
\* (validate_step is the node after 5 executions and then after every 5
\* more).  Status completed goes with the step index at the end of the list,
\* completed_steps holds the steps before the current one, a substep has been
\* planned and acted on, and at least one observation is on record.  Each
\* node call returns and the graph then runs the next node, which the weak
\* fairness of LimitNext states.
SubstepRecords ==
    {[current_substep_id |-> "id", script_stored |-> TRUE, script_run |-> "ran",
      last_result |-> "ok"],
     [current_substep_id |-> "id", script_stored |-> TRUE, script_run |-> "ran",
      last_result |-> "fail"],
     [current_substep_id |-> "mock", script_stored |-> FALSE,
      script_run |-> "not_run", last_result |-> "fail"]}

LimitInit ==
    /\ pc = "validate_step"
    /\ node_executions = RECURSION_LIMIT - 5
    /\ \E n \in 1..MaxSteps :
          /\ steps = StoredSteps(n, FALSE)
          /\ current_step_index \in 0..n
          /\ completed_steps = SortedList(0..(current_step_index - 1))
          /\ overall_status = IF current_step_index = n
                              THEN "completed" ELSE "running"
    /\ current_substep_index \in SubstepSamples
    /\ consecutive_failures \in {0, FAILURE_BREAKER - 1}
    /\ consecutive_no_change \in {0, MaxNoChange}
    /\ last_validation = NoValidation
    /\ validation_node = 0
    /\ last_plan \in {"final", "nonfinal", "fallback"}
    /\ \E r \in SubstepRecords :
          /\ current_substep_id = r.current_substep_id
          /\ script_stored = r.script_stored
          /\ script_run = r.script_run
          /\ last_result = r.last_result
    /\ \/ page_state_tracking = <<1>> /\ page_stuck_detected = "unset"
       \/ page_state_tracking = <<1, 1, 1>> /\ page_stuck_detected = "yes"
    /\ last_page \in {0, 1}
    /\ page = 1
    /\ login_completed = TRUE
    /\ error_message = "none"
    /\ playwright_wrapper = "started"
    /\ open_resources = AllResources
    /\ login = NoLogin
    /\ decision = "none"
    /\ report_status = "none"
    /\ report_totals = NoTotals
    /\ results_before = <<>>
    /\ results_kept = FALSE
    /\ history_before = <<>>
    /\ history_kept = FALSE
    /\ VerifyIdle
    /\ BridgeIdle
    /\ PlanIdle

LimitNext ==
    \/ get_current_context
    \/ generate_next_substep
    \/ execute_substep
    \/ validate_step
    \/ decide
    \/ continue_substeps
    \/ move_to_next_step
    \/ cleanup
    \/ run_return
    \/ run_recursion_error
    \/ run_except

LimitSpec == LimitInit /\ [][LimitNext]_vars /\ WF_vars(LimitNext)

\* ------------------------------------------- the whole result list
\* ResultsSpec follows a run from the state initialize leaves on success,
\* for a test case of one step, and keeps every entry of execution_results.
ResultsInit ==
    /\ pc = "auto_login"
    /\ node_executions = 1
    /\ \E firstIsLogin \in BOOLEAN : steps = StoredSteps(1, firstIsLogin)
    /\ current_step_index = 0
    /\ current_substep_index = 0
    /\ completed_steps = <<>>
    /\ login_completed = FALSE
    /\ overall_status = "running"
    /\ error_message = "none"
    /\ consecutive_failures = 0
    /\ consecutive_no_change = 0
    /\ last_validation = NoValidation
    /\ validation_node = 0
    /\ last_result = "none"
    /\ last_plan = "none"
    /\ current_substep_id = "none"
    /\ page_state_tracking = <<>>
    /\ page_stuck_detected = "unset"
    /\ last_page = 0
    /\ page = 1
    /\ playwright_wrapper = "started"
    /\ open_resources = AllResources
    /\ login = NoLogin
    /\ script_stored = FALSE
    /\ script_run = "none"
    /\ decision = "none"
    /\ report_status = "none"
    /\ report_totals = NoTotals
    /\ results_before = <<>>
    /\ results_kept = TRUE
    /\ history_before = <<>>
    /\ history_kept = FALSE
    /\ VerifyIdle
    /\ BridgeIdle
    /\ PlanIdle

ResultsNext ==
    \/ auto_login
    \/ get_current_context
    \/ generate_next_substep
    \/ execute_substep
    \/ validate_step
    \/ decide
    \/ continue_substeps
    \/ move_to_next_step
    \/ cleanup
    \/ run_return

ResultsSpec == ResultsInit /\ [][ResultsNext]_vars

\* ------------------------------------------- the whole snapshot history
\* HistorySpec follows the last two cycles of a run that reaches the
\* recursion limit, on the last step of its test case, and keeps every entry
\* of page_state_history.  Of the validations before them, three or four
\* stored a snapshot; the others raised before they could.  The verdict in
\* the state is the one the cycle before left.
HistoryLengths == {3, 4}

HistoryInit ==
    /\ pc = "validate_step"
    /\ node_executions = RECURSION_LIMIT - 10
    /\ \E n \in 1..MaxSteps :
          /\ steps = StoredSteps(n, FALSE)
          /\ current_step_index = n - 1
          /\ completed_steps = SortedList(0..(n - 2))
    /\ overall_status = "running"
    /\ current_substep_index = 1
    /\ consecutive_failures = 0
    /\ consecutive_no_change = 0
    /\ last_validation \in {Verdict(TRUE, 90), ErrorVerdict}
    /\ validation_node = node_executions - 5
    /\ last_plan = "nonfinal"
    /\ current_substep_id = "id"
    /\ script_stored = TRUE
    /\ script_run = "ran"
    /\ last_result \in {"ok", "fail"}
    /\ \E len \in HistoryLengths : history_before \in [1..(len - 1) -> {1}]
    /\ last_page \in Pages
    /\ page_state_tracking \in {<<1>>, <<1, 1>>}
    /\ page_stuck_detected = "unset"
    /\ page = 1
    /\ login_completed = TRUE
    /\ error_message = "none"
    /\ playwright_wrapper = "started"
    /\ open_resources = AllResources
    /\ login = NoLogin
    /\ decision = "none"
    /\ report_status = "none"
    /\ report_totals = NoTotals
    /\ results_before = <<>>
    /\ results_kept = FALSE
    /\ history_kept = TRUE
    /\ VerifyIdle
    /\ BridgeIdle
    /\ PlanIdle

HistoryNext ==
    \/ get_current_context
    \/ generate_next_substep
    \/ execute_substep
    \/ validate_step
    \/ decide
    \/ continue_substeps
    \/ move_to_next_step
    \/ cleanup
    \/ run_return
    \/ run_recursion_error
    \/ run_except

HistorySpec == HistoryInit /\ [][HistoryNext]_vars

\* ------------------------------------------- any cycle of a run
\* CycleSpec follows a run from its initial state, as Spec does, and also
\* one cycle and the start of the next from the start of any later cycle:
\* the state continue_substeps or move_to_next_step leaves when get_context
\* is to run next.  CycleStart is what such a state satisfies; the
\* properties checked under CycleSpec state it again for every cycle start
\* they reach, so that it holds at the start of every cycle of every run by
\* induction.

\* The substep indices of a cycle start: the first, one that allows the
\* stuck short-circuit, the last two a step can reach.
CycleSubsteps == {0, STUCK_MIN_SUBSTEP, MAX_SUBSTEPS_PER_STEP - 1,
                  MAX_SUBSTEPS_PER_STEP}

\* The start of a cycle after the first.
LaterCycle == pc = "get_context" /\ node_executions > 2

\* What the state satisfies then.
CycleStart ==
    /\ current_step_index <= Len(steps)
    /\ completed_steps = SortedList(0..(current_step_index - 1))
    /\ overall_status = IF current_step_index = Len(steps)
                        THEN "completed" ELSE "running"
    /\ current_substep_index <= MAX_SUBSTEPS_PER_STEP
    /\ consecutive_failures < FAILURE_ADVANCE
    /\ last_result # "fail" => consecutive_failures = 0
    /\ current_substep_index >= 1 => current_substep_id # "none"

CycleInit ==
    /\ pc = "get_context"
    /\ node_executions = RECURSION_LIMIT - 8
    /\ \E n \in 1..MaxSteps :
          /\ steps = StoredSteps(n, FALSE)
          /\ current_step_index \in 0..n
    /\ current_substep_index \in CycleSubsteps
    /\ consecutive_failures \in 0..(FAILURE_ADVANCE - 1)
    /\ last_result \in {"none", "ok", "fail"}
    /\ current_substep_id \in {"none", "id", "mock"}
    /\ completed_steps = SortedList(0..(current_step_index - 1))
    /\ overall_status \in {"running", "completed"}
    /\ CycleStart
    /\ script_stored = (current_substep_id = "id")
    /\ script_run = IF current_substep_id = "id" THEN "ran"
                    ELSE IF current_substep_id = "mock" THEN "not_run"
                    ELSE "none"
    /\ last_plan \in IF current_substep_id = "none" THEN {"none"}
                    ELSE {"final", "nonfinal"}
    /\ consecutive_no_change \in {0, NO_CHANGE_ADVANCE - 1}
    /\ last_validation \in {Verdict(FALSE, 90), ForcedVerdict}
    /\ validation_node = node_executions - 1
    /\ \/ page_state_tracking = <<1>> /\ page_stuck_detected = "unset"
       \/ page_state_tracking = <<1, 1>> /\ page_stuck_detected = "unset"
    /\ last_page = 1
    /\ page = 1
    /\ login_completed = TRUE
    /\ error_message = "none"
    /\ playwright_wrapper = "started"
    /\ open_resources = AllResources
    /\ login = NoLogin
    /\ decision = "none"
    /\ report_status = "none"
    /\ report_totals = NoTotals
    /\ results_before = <<>>
    /\ results_kept = FALSE
    /\ history_before = <<>>
    /\ history_kept = FALSE
    /\ VerifyIdle
    /\ BridgeIdle
    /\ PlanIdle

CycleNext ==
    \/ initialize
    \/ auto_login
    \/ get_current_context
    \/ generate_next_substep
    \/ execute_substep
    \/ validate_step
    \/ decide
    \/ continue_substeps
    \/ move_to_next_step
    \/ cleanup
    \/ run_return
    \/ run_recursion_error
    \/ run_except

CycleSpec == (Init \/ CycleInit) /\ [][CycleNext]_vars

\* ------------------------------------------- the post-action re-check
\* VerifySpec applies the post-action re-check of execute_substep, again and
\* again, to any result a script can return under any plan.
VerifyInit ==
    /\ RunIdle
    /\ BridgeIdle
    /\ PlanIdle
    /\ exec_raw \in BOOLEAN
    /\ exec_result = [success |-> exec_raw, verified |-> 0,
                      intermediate |-> FALSE]
    /\ plan_check \in {"none"} \cup CheckTypes
    /\ clause_holds = FALSE
    /\ rechecks = 0

\* The re-check block of execute_substep: an upgrade marks the message
\* "(verified post-action)"; a result still failed may get the intermediate
\* progress that was detected.
post_action_verification ==
    /\ rechecks < MaxRechecks
    /\ rechecks' = rechecks + 1
    /\ \E holds \in BOOLEAN, progress \in BOOLEAN :
          LET has_plan == plan_check # "none"
              success == PostVerified(exec_result.success, has_plan,
                                      plan_check, holds)
          IN  /\ clause_holds' = holds
              /\ exec_result' =
                    [success |-> success,
                     verified |-> IF success # exec_result.success
                                  THEN exec_result.verified + 1
                                  ELSE exec_result.verified,
                     intermediate |->
                         IF ~exec_result.success /\ has_plan /\ ~success
                            /\ progress
                         THEN TRUE
                         ELSE exec_result.intermediate]
    /\ UNCHANGED <<exec_raw, plan_check, run_vars, bridge_vars, plan_vars>>

VerifyNext == post_action_verification

VerifySpec == VerifyInit /\ [][VerifyNext]_vars

\* ------------------------------------------- the concurrency bridge
\* BridgeSpec runs the executor of a PlaywrightThreadWrapper on its own.
\* Callers submit calls of any kind without waiting for the calls before
\* them, which covers every way the engine can use the bridge.
CallKinds == {"start", "page", "locator", "stop"}

BridgeInit == RunIdle /\ VerifyIdle /\ BridgeIdle /\ PlanIdle

\* loop.run_in_executor(self.executor, ...): the call joins the work queue.
run_in_executor ==
    /\ Len(bridge_calls) < MaxCalls
    /\ \E kind \in CallKinds :
          bridge_calls' = Append(bridge_calls, kind)
    /\ bridge_queue' = Append(bridge_queue, Len(bridge_calls) + 1)
    /\ UNCHANGED <<bridge_running, driver_calls, engine_calls, run_vars,
                   verify_vars, plan_vars>>

\* An idle worker thread takes the oldest call of the queue and the sync
\* driver begins it.
worker_takes ==
    /\ bridge_queue # <<>>
    /\ \E w \in Workers :
          /\ bridge_running[w] = 0
          /\ bridge_running' = [bridge_running EXCEPT ![w] = Head(bridge_queue)]
    /\ bridge_queue' = Tail(bridge_queue)
    /\ driver_calls' = Append(driver_calls, Head(bridge_queue))
    /\ UNCHANGED <<bridge_calls, engine_calls, run_vars, verify_vars, plan_vars>>

\* The driver call returns and its worker thread is idle again.
worker_returns ==
    /\ \E w \in Workers :
          /\ bridge_running[w] # 0
          /\ bridge_running' = [bridge_running EXCEPT ![w] = 0]
    /\ UNCHANGED <<bridge_calls, bridge_queue, driver_calls, engine_calls,
                   run_vars, verify_vars, plan_vars>>

\* What the page and locator wrappers hand out without the executor: a
\* locator of the page, a first/last/nth locator of a locator, the url.
DirectAccesses == {"locator", "nth", "url"}

\* AsyncPageWrapper.__getattr__ and url, AsyncLocatorWrapper.__getattr__ for
\* what is not a method call: the access to the sync object is made in the
\* caller's thread.
wrapper_access ==
    /\ Len(engine_calls) < MaxCalls
    /\ \E access \in DirectAccesses :
          engine_calls' = Append(engine_calls, access)
    /\ UNCHANGED <<bridge_calls, bridge_queue, bridge_running, driver_calls,
                   run_vars, verify_vars, plan_vars>>

BridgeNext ==
    \/ run_in_executor
    \/ wrapper_access
    \/ worker_takes
    \/ worker_returns

BridgeSpec == BridgeInit /\ [][BridgeNext]_vars

\* ------------------------------------------- the plans of a step
\* PlanSpec follows the plans of one step field by field: the Planner
\* returns any plan, generate_next_substep checks it and records it, and
\* execute_substep marks the recorded plan when its script does not compile.

\* Descriptions as the sets of their lowercased words: two of five words
\* that share four, and one that speaks of signing out.
Descriptions ==
    { {"w1", "w2", "w3", "w4", "w5"},
      {"w1", "w2", "w3", "w4", "w6"},
      {"click", "logout"} }

\* The plans the Planner can return: clicks, so that a recorded plan differs
\* in action_type once the safety check has made it a verification.
Plans ==
    [action_type : {"click"},
     primary_selector : {"#a", "#b"},
     words : Descriptions,
     is_final_substep : BOOLEAN,
     syntax_error : {FALSE}]

\* recent_plans[-window:]
LastPlans(recent_plans, window) ==
    IF Len(recent_plans) <= window
    THEN recent_plans
    ELSE SubSeq(recent_plans, Len(recent_plans) - window + 1, Len(recent_plans))

\* One turn of the loop of _is_duplicate_plan: the plan counts when action and
\* selector are equal, or else when more than 80% of the words of the new
\* description are words of its description.
CountsAsDuplicate(new, plan) ==
    IF plan.action_type = new.action_type
       /\ plan.primary_selector = new.primary_selector
    THEN TRUE
    ELSE /\ new.words # {}
         /\ plan.words # {}
         /\ OVERLAP_DEN * Cardinality(new.words \cap plan.words)
               > OVERLAP_NUM * Cardinality(new.words)

\* _is_duplicate_plan(new_plan, recent_plans, window=3)
is_duplicate_plan(new, recent_plans) ==
    LET recent == LastPlans(recent_plans, DUPLICATE_WINDOW)
        duplicate_count ==
            Cardinality({i \in 1..Len(recent) : CountsAsDuplicate(new, recent[i])})
        syntax_error_count ==
            Cardinality({i \in 1..Len(recent) : recent[i].syntax_error})
    IN  IF Len(recent_plans) < DUPLICATE_MIN_PLANS THEN FALSE
        ELSE IF syntax_error_count >= DUPLICATE_THRESHOLD THEN TRUE
        ELSE duplicate_count >= DUPLICATE_THRESHOLD

\* any(keyword in text for keyword in destructive_keywords)
HasSignoutKeyword(words) == "logout" \in words

\* The words of f"Verify goal achieved: {expected_result}".
VerifyGoalWords == {"verify", "goal", "achieved"}

\* A safety check that lets every plan through.
SafetyChecked_NoGuard(plan, goal_requires_logout) == plan

\* The safety check of generate_next_substep: a plan that would sign out of
\* a step whose goal does not ask for it becomes a final verification.
SafetyChecked(plan, goal_requires_logout) ==
    IF HasSignoutKeyword(plan.words) /\ ~goal_requires_logout
    THEN [plan EXCEPT !.is_final_substep = TRUE,
                      !.action_type = "verify",
                      !.words = VerifyGoalWords]
    ELSE plan

\* A planning phase that ends the step on a plan flagged as a duplicate.
PlanRecorded_DuplicateIsFinal(plan, goal_requires_logout, is_duplicate) ==
    IF is_duplicate
    THEN [SafetyChecked(plan, goal_requires_logout)
             EXCEPT !.is_final_substep = TRUE]
    ELSE SafetyChecked(plan, goal_requires_logout)

\* The plan generate_next_substep appends to substep_plans and hands to
\* the script generator: the answer of the duplicate check is only printed.
PlanRecorded(plan, goal_requires_logout, is_duplicate) ==
    SafetyChecked(plan, goal_requires_logout)

PlanInit ==
    /\ RunIdle
    /\ VerifyIdle
    /\ BridgeIdle
    /\ substep_plans = <<>>
    /\ new_plan = NoPlan
    /\ plan_flagged = FALSE
    /\ scripted_plan = NoPlan
    /\ goal_signout \in BOOLEAN

\* generate_next_substep from the Planner's answer on: the plan is checked,
\* recorded and handed to the script generator, which returns a script or
\* raises.  After a raise the run is in error and plans no more.
plan_substep ==
    /\ Len(substep_plans) < MaxPlans
    /\ new_plan = NoPlan \/ scripted_plan # NoPlan
    /\ \E plan \in Plans, script_generated \in BOOLEAN :
          LET substep_plan ==
                  PlanRecorded(plan, goal_signout,
                               is_duplicate_plan(plan, substep_plans))
          IN  /\ new_plan' = plan
              /\ plan_flagged' = is_duplicate_plan(plan, substep_plans)
              /\ substep_plans' = Append(substep_plans, substep_plan)
              /\ scripted_plan' = IF script_generated THEN substep_plan
                                  ELSE NoPlan
    /\ UNCHANGED <<goal_signout, run_vars, verify_vars, bridge_vars>>

\* execute_substep finds that the script of the last plan does not compile.
mark_syntax_error ==
    /\ scripted_plan # NoPlan
    /\ ~substep_plans[Len(substep_plans)].syntax_error
    /\ substep_plans' =
          [substep_plans EXCEPT ![Len(substep_plans)].syntax_error = TRUE]
    /\ UNCHANGED <<new_plan, plan_flagged, scripted_plan, goal_signout,
                   run_vars, verify_vars, bridge_vars>>

PlanNext ==
    \/ plan_substep
    \/ mark_syntax_error

PlanSpec == PlanInit /\ [][PlanNext]_vars

\* ------------------------------------------------------------ properties
\* The state right after a Decision Engine evaluation: the routed node has
\* not run yet, so every field is as the evaluation read it.
Decided == pc \in {"continue_substeps", "move_to_next_step", "cleanup"}

\* Rule 1 does not apply.
RunOpen ==
    /\ overall_status \notin {"completed", "error"}
    /\ current_step_index < Len(steps)

\* Rules 1 to 4 do not apply.
Rules1to4Pass ==
    /\ RunOpen
    /\ current_substep_index < 10
    /\ consecutive_failures < 5
    /\ ~InList(current_step_index, completed_steps)

ConfidentVerdict == last_validation.present /\ last_validation.confidence >= 70

AllStepsCompleted ==
    \A i \in 0..(Len(steps) - 1) : InList(i, completed_steps)

NoDuplicates(list) ==
    \A i, j \in 1..Len(list) : list[i] = list[j] => i = j

IsPrefix(a, b) ==
    /\ Len(a) <= Len(b)
    /\ \A i \in 1..Len(a) : a[i] = b[i]

\* C1: if initialization fails, the status run() reports is error.
C1_InitFailureReportsError ==
    (pc = "returned" /\ error_message = "initialize") => report_status = "error"

\* C2 as stated: with consecutive_failures >= 5 the decision is finish,
\* whatever the other fields are.
C2_BreakerAlwaysFinishes ==
    (Decided /\ consecutive_failures >= 5) => decision = "finish"

\* C2 amended: with consecutive_failures >= 5 the decision is finish, except
\* that an open run with current_substep_index >= 10 gets next_step.
C2_BreakerFinishesBelowCeiling ==
    (Decided /\ consecutive_failures >= 5) =>
        decision = IF RunOpen /\ current_substep_index >= 10
                   THEN "next_step" ELSE "finish"

C2_Witness ==
    /\ Decided
    /\ RunOpen
    /\ consecutive_failures >= 5
    /\ current_substep_index < 10
    /\ last_validation = Verdict(TRUE, 90)
    /\ decision = "finish"

\* C3: with current_substep_index >= 10 and the run not finished the decision
\* is next_step, even against a confident not-completed verdict.
C3_CeilingAdvances ==
    (Decided /\ RunOpen /\ current_substep_index >= 10) => decision = "next_step"

C3_Witness ==
    /\ Decided
    /\ RunOpen
    /\ current_substep_index >= 10
    /\ last_validation = Verdict(FALSE, 90)
    /\ consecutive_failures = 0
    /\ decision = "next_step"

\* C4: 0 <= current_step_index <= len(steps) in every state, and
\* current_step_index never decreases.
C4_StepIndexBoundedMonotone ==
    /\ [](0 <= current_step_index /\ current_step_index <= Len(steps))
    /\ [][current_step_index' >= current_step_index]_vars

C4_Witness ==
    /\ pc = "get_context"
    /\ Len(steps) >= 2
    /\ steps[1] = "login"
    /\ decision = "next_step"
    /\ current_step_index = Len(steps)

\* C5: completed_steps never holds an index twice, and an index once added
\* is never removed.
C5_CompletedOnceForever ==
    /\ [](NoDuplicates(completed_steps))
    /\ [][IsPrefix(completed_steps, completed_steps')]_vars

C5_Witness ==
    /\ pc = "get_context"
    /\ decision = "next_step"
    /\ Len(completed_steps) >= 2

\* C6: past rules 1 to 4, a not-completed verdict with confidence below 0.6
\* and consecutive_failures >= 2 gives next_step.
C6_LowConfidenceAdvances ==
    ( /\ Decided
      /\ Rules1to4Pass
      /\ last_validation.present
      /\ ~last_validation.is_completed
      /\ last_validation.confidence < 60
      /\ consecutive_failures >= 2 ) => decision = "next_step"

\* C7: past rules 1 to 4, a verdict with confidence >= 0.7 gives next_step
\* when it says completed; otherwise next_step iff consecutive_no_change >= 3
\* or consecutive_failures >= 3, and continue_substeps in every other case.
C7_ConfidentVerdictDecides ==
    (Decided /\ Rules1to4Pass /\ ConfidentVerdict) =>
        /\ last_validation.is_completed => decision = "next_step"
        /\ ~last_validation.is_completed =>
              /\ decision \in {"next_step", "continue_substeps"}
              /\ decision = "next_step" <=>
                    (consecutive_no_change >= 3 \/ consecutive_failures >= 3)

C7_Witness ==
    /\ Decided
    /\ Rules1to4Pass
    /\ ConfidentVerdict
    /\ ~last_validation.is_completed
    /\ consecutive_no_change >= 3
    /\ consecutive_failures = 0
    /\ decision = "next_step"

C10_CleanupStatus ==
    [][pc = "cleanup" =>
          overall_status' = IF overall_status = "error"
                            THEN "error"
                            ELSE IF AllStepsCompleted THEN "passed" ELSE "failed"]_vars

\* C11: once overall_status is error, no later phase of the run changes it.
C11_ErrorIsSink ==
    [][overall_status = "error" => overall_status' = "error"]_vars

\* C12: whenever run() returns, the reported status is passed, failed or
\* error, also when closing the browser session fails inside cleanup.
C12_ReportIsTerminal ==
    pc = "returned" => report_status \in {"passed", "failed", "error"}

\* The last 3 snapshots of the observation window hold one url and one hash.
LastThreeSame ==
    LET n == Len(page_state_tracking)
    IN  \A i \in (n - 2)..n :
           /\ Url(page_state_tracking[i]) = Url(page_state_tracking[n])
           /\ HtmlHash(page_state_tracking[i]) = HtmlHash(page_state_tracking[n])

ActsOnNewSubstep ==
    /\ pc = "execute_substep"
    /\ RunOpen
    /\ consecutive_failures < 5
    /\ current_substep_id # "none"
    /\ script_run = "none"

\* auto_login is about to run its login sub-protocol.
LoginRuns == pc = "auto_login" /\ overall_status # "error"

\* After a login, whatever its outcome: the run is not aborted and goes on
\* to the observe/plan cycle.
LoginProceeds ==
    /\ overall_status' = "running"
    /\ login_completed' = TRUE
    /\ pc' = "get_context"

LoginRecorded == error_message \in {"login_failed", "login_uncertain"}

\* C17 as stated: after a login that raised, exhausted its attempts or got
\* the verdict not-logged-in, the run goes on (status running,
\* login_completed true, next the observe/plan cycle) and error_message
\* holds the failure reason.
C17_FailedLoginRecorded ==
    [][ ( /\ LoginRuns
          /\ \/ login'.loop \in {"raised", "exhausted"}
             \/ login'.verdict = "not_logged_in" )
        => (LoginProceeds /\ LoginRecorded') ]_vars

\* C17 amended: after any login the run goes on; error_message holds the
\* failure reason when the login raised or its verdict is not-logged-in,
\* and a login that exhausted its attempts and got the verdict logged-in
\* leaves error_message as it was.
C17_RaisedOrUnverifiedLoginRecorded ==
    [][ LoginRuns =>
          /\ LoginProceeds
          /\ (login'.loop = "raised" \/ login'.verdict = "not_logged_in")
                => LoginRecorded'
          /\ (login'.loop # "raised" /\ login'.verdict = "logged_in")
                => error_message' = error_message ]_vars

C17_Witness ==
    /\ pc = "get_context"
    /\ login.loop = "exhausted"
    /\ login.verdict = "not_logged_in"
    /\ error_message = "login_uncertain"
    /\ overall_status = "running"

\* C18: when the Store kept no script for the substep planned in this cycle
\* (a create call returned nothing), the run is not aborted and the Acting
\* phase of the cycle still runs the planned action.
C18_UnstoredPlanStillExecuted ==
    [][ (ActsOnNewSubstep /\ ~script_stored) =>
          (overall_status' = "running" /\ script_run' = "ran") ]_vars

\* C20: a plan call that failed is fatal for that call: Planning records an
\* error, and the plan standing in for the failed call is neither executed
\* nor used to advance the step.
C20_FailedPlanCallIsFatal ==
    [][ /\ ( /\ pc = "generate_substep"
             /\ last_plan # "fallback"
             /\ last_plan' = "fallback" ) => overall_status' = "error"
        /\ (pc = "execute_substep" /\ last_plan = "fallback")
              => UNCHANGED <<last_result, script_run>>
        /\ (pc = "decide" /\ last_plan = "fallback")
              => decision' # "next_step" ]_vars

\* Cycles the loop can still start: each open step has the substeps from 0
\* to the ceiling and the cycle that advances it.
CyclesLeft ==
    IF RunOpen
    THEN (Len(steps) - current_step_index) * (MAX_SUBSTEPS_PER_STEP + 2)
            - (IF current_substep_index > MAX_SUBSTEPS_PER_STEP + 1
               THEN MAX_SUBSTEPS_PER_STEP + 1
               ELSE current_substep_index)
    ELSE 0

\* Phases left in the current cycle.
PhasesLeft ==
    CASE pc = "get_context" -> 5
      [] pc = "generate_substep" -> 4
      [] pc = "execute_substep" -> 3
      [] pc = "validate_step" -> 2
      [] pc = "decide" -> 1
      [] OTHER -> 0

\* A measure of the work a run has left.
Rank ==
    CASE pc = "returned" -> 0
      [] pc = "END" -> 1
      [] pc \in {"cleanup", "except"} -> 2
      [] OTHER -> 3 + 6 * CyclesLeft + PhasesLeft

\* C13: every run terminates.  The work left is never negative and every
\* step of the engine lowers it, so the loop cannot cycle forever; and every
\* run reaches cleanup (the node, or the call in run()'s except clause) and
\* run() returns.
C13_EveryRunTerminates ==
    /\ [](Rank >= 0)
    /\ [][Rank' < Rank]_vars
    /\ <>(pc \in {"cleanup", "except"})
    /\ <>(pc = "returned")

C13_Witness ==
    /\ pc = "get_context"
    /\ decision = "next_step"
    /\ current_substep_index = 0
    /\ current_step_index < Len(steps)
    /\ node_executions = RECURSION_LIMIT - 3

\* C19: on every exit path of run(), every Actuator resource that was opened
\* (browser, driver, worker thread) is closed when run() returns.
C19_ResourcesReleased ==
    pc = "returned" => open_resources = {}

\* C16: post-action re-verification only ever upgrades.  A re-check changes
\* success only from false to true and only when the plan's verification
\* clause holds at that re-check, and a success that is true stays true
\* through any number of re-checks.
C16_ReverificationOnlyUpgrades ==
    [][/\ exec_result.success => exec_result'.success
       /\ exec_result'.success # exec_result.success =>
              /\ ~exec_result.success
              /\ plan_check \in CheckTypes \ {"other"}
              /\ clause_holds']_vars

C16_Witness ==
    /\ rechecks >= 2
    /\ ~exec_raw
    /\ exec_result.success
    /\ exec_result.verified = 1
    /\ ~clause_holds

\* The driver calls running now.
RunningCalls == {bridge_running[w] : w \in Workers} \ {0}

\* C14: calls submitted through the concurrency bridge are executed by the
\* sync driver one at a time and in the order they were submitted: at most
\* one call runs at any moment, the i-th call the driver begins is the i-th
\* call submitted, and no call begins before the one before it has returned.
C14_BridgeIsFifoAndSerial ==
    /\ Cardinality(RunningCalls) <= 1
    /\ \A i \in 1..Len(driver_calls) : driver_calls[i] = i
    /\ \A c \in RunningCalls : c = Len(driver_calls)

C14_Witness ==
    /\ Len(bridge_calls) = MaxCalls
    /\ Len(driver_calls) = 2
    /\ RunningCalls = {2}
    /\ bridge_queue = <<3>>

\* C21: every action failure of the Acting phase is counted.  Whenever
\* execute_substep appends a result with success false, consecutive_failures
\* is one higher than before the phase, and whenever it appends one with
\* success true, consecutive_failures is 0.
C21_EveryFailureCounted ==
    [][pc = "execute_substep"
       /\ Len(execution_results') = Len(execution_results) + 1
       => IF last_result' = "fail"
          THEN consecutive_failures' = consecutive_failures + 1
          ELSE consecutive_failures' = 0]_vars

\* The phase that follows each phase of a cycle.
NextPhase ==
    [get_context |-> "generate_substep",
     generate_substep |-> "execute_substep",
     execute_substep |-> "validate_step",
     validate_step |-> "decide"]

\* C22: the phases of each cycle occur strictly in the order observe, plan,
\* act, validate, decide.  Each phase is followed by the next one and by
\* nothing else, and a cycle starts only after the login or after the node
\* the decision of the cycle before routed to.
C22_PhasesInOrder ==
    [][/\ pc \in DOMAIN NextPhase /\ pc' # pc => pc' = NextPhase[pc]
       /\ pc' = "get_context" /\ pc # "get_context"
            => \/ pc = "auto_login"
               \/ pc = "continue_substeps" /\ decision = "continue_substeps"
               \/ pc = "move_to_next_step" /\ decision = "next_step"
       /\ pc' \in {"continue_substeps", "move_to_next_step"} /\ pc' # pc
            => pc = "decide"]_vars

C22_Witness ==
    /\ pc = "decide"
    /\ decision \in {"continue_substeps", "next_step"}
    /\ node_executions = 11

\* C26: after 3 consecutive Validating phases that found the page unchanged
\* (the third one leaves the forced verdict), the Decision Engine evaluation
\* that follows returns next_step.  Stated for the evaluations that pass
\* rules 1 to 4 in a run that has recorded a result.
C26_NoChangeForcesNextStep ==
    /\ Decided
    /\ Rules1to4Pass
    /\ last_result # "none"
    /\ consecutive_no_change >= NO_CHANGE_ADVANCE
    /\ last_validation = ForcedVerdict
    => decision = "next_step"

\* C23: when the Validating phase obtains a verdict with confidence 0.7 or
\* more and is_completed true while the last ExecResult has success false,
\* that ExecResult has success true after the phase and consecutive_failures
\* is 0; after a verdict with confidence below 0.7 execution_results is as
\* it was.
C23_ConfidentVerdictOverrides ==
    [][pc = "validate_step" /\ RunOpen
       => /\ last_validation'.confidence >= CONFIDENT
             /\ last_validation'.is_completed
             /\ last_result = "fail"
             => /\ execution_results' =
                      [execution_results EXCEPT ![Len(execution_results)] = TRUE]
                /\ consecutive_failures' = 0
          /\ last_validation'.confidence < CONFIDENT
             => execution_results' = execution_results]_vars

C23_Witness ==
    /\ pc = "decide"
    /\ RunOpen
    /\ script_run = "not_run"
    /\ last_result = "ok"
    /\ last_validation.confidence >= CONFIDENT
    /\ consecutive_failures = 0

\* C24: execution_results is append-only.  No step shortens it or moves an
\* entry, no entry's success goes from true to false (so an entry goes from
\* false to true at most once), and the only entry whose success changes is
\* the most recent one, in the Validating phase.
C24_ResultsAppendOnly ==
    [][/\ Len(execution_results') >= Len(execution_results)
       /\ \A i \in 1..Len(execution_results) :
             /\ execution_results[i] => execution_results'[i]
             /\ execution_results'[i] # execution_results[i]
                  => /\ i = Len(execution_results)
                     /\ Len(execution_results') = Len(execution_results)
                     /\ pc = "validate_step"]_vars

C24_Witness ==
    /\ pc = "decide"
    /\ script_run = "not_run"
    /\ last_result = "ok"
    /\ Len(results_before) >= 2
    /\ \E i \in 1..Len(results_before) : ~results_before[i]

\* C25: whenever current_step_index increases, current_substep_index is 0
\* and substep_plans is empty in the resulting state.
C25_StepAdvanceResetsSubsteps ==
    [][current_step_index' > current_step_index
       => current_substep_index' = 0 /\ last_plan' = "none"]_vars

C25_Witness ==
    /\ pc = "get_context"
    /\ decision = "next_step"
    /\ script_run = "none"
    /\ current_step_index >= 1
    /\ current_step_index < Len(steps)
    /\ last_result # "none"
    /\ current_substep_index = 0
    /\ last_plan = "none"

\* The fields of the run state (AutoTestState) the model follows.
RunState ==
    <<steps, current_step_index, current_substep_index, completed_steps,
      login_completed, overall_status, error_message, consecutive_failures,
      consecutive_no_change, last_validation, last_result, results_before,
      last_plan, current_substep_id, page_state_tracking, page_stuck_detected,
      last_page>>

\* C27: the Decision Engine is a pure function of the run state.  Its
\* evaluation changes no field of the state; the nodes it routes to make the
\* updates.
C27_DecisionChangesNoField ==
    [][pc = "decide" => RunState' = RunState]_vars

C27_Witness ==
    /\ pc = "move_to_next_step"
    /\ decision = "next_step"
    /\ RunOpen
    /\ current_substep_index > 0
    /\ ~InList(current_step_index, completed_steps)

\* The plans recorded before the last one, the recent_plans its duplicate
\* check read.
PlansBefore == SubSeq(substep_plans, 1, Len(substep_plans) - 1)

\* C28: the duplicate detector flags a new plan whenever its action and
\* selector equal those of at least one of the last 3 plans of the step, or
\* its description shares more than 80% of its words with at least one.
C28_OneMatchIsFlagged ==
    (/\ new_plan # NoPlan
     /\ \E i \in 1..Len(LastPlans(PlansBefore, DUPLICATE_WINDOW)) :
           CountsAsDuplicate(new_plan,
                             LastPlans(PlansBefore, DUPLICATE_WINDOW)[i]))
    => plan_flagged

\* C29: duplicate detection forces nothing: the plan a planning phase
\* records and scripts is the one it would record and script had the
\* duplicate check answered the other way, and nothing else of the state
\* depends on the answer.
C29_DuplicateFlagForcesNothing ==
    [][Len(substep_plans') > Len(substep_plans)
       => \A is_duplicate \in BOOLEAN :
             /\ substep_plans' =
                   Append(substep_plans,
                          PlanRecorded(new_plan', goal_signout, is_duplicate))
             /\ scripted_plan' \in
                   {NoPlan, PlanRecorded(new_plan', goal_signout, is_duplicate)}
             /\ UNCHANGED <<goal_signout, run_vars>>]_vars

\* A plan flagged as a duplicate was recorded and scripted as the Planner
\* returned it, not final.
C29_Witness ==
    /\ plan_flagged
    /\ ~new_plan.is_final_substep
    /\ substep_plans[Len(substep_plans)] = new_plan
    /\ scripted_plan = new_plan

\* The plan recorded last, without the mark a later execution may leave.
LastRecorded == [substep_plans[Len(substep_plans)] EXCEPT !.syntax_error = FALSE]

\* C30: a plan that speaks of signing out, in a step whose goal does not, is
\* recorded and scripted as a final verification and never as planned; in a
\* step whose goal speaks of signing out every plan is kept as planned.
C30_SignoutPlanReplaced ==
    new_plan # NoPlan =>
       /\ (HasSignoutKeyword(new_plan.words) /\ ~goal_signout)
             => /\ LastRecorded.action_type = "verify"
                /\ LastRecorded.is_final_substep
                /\ LastRecorded # new_plan
                /\ scripted_plan \in {NoPlan, LastRecorded}
       /\ goal_signout
             => /\ LastRecorded = new_plan
                /\ scripted_plan \in {NoPlan, new_plan}

\* A click on the sign-out control, planned as not final for a goal that
\* does not ask for it, was recorded and scripted as a final verification.
C30_Witness ==
    /\ ~goal_signout
    /\ HasSignoutKeyword(new_plan.words)
    /\ new_plan.action_type = "click"
    /\ ~new_plan.is_final_substep
    /\ scripted_plan = LastRecorded
    /\ scripted_plan.action_type = "verify"
    /\ scripted_plan.is_final_substep

\* C31: every page-snapshot history of the run state, the observation-time
\* window and the validation-time page_state_history, holds at most 5
\* snapshots.
C31_HistoriesHoldFive ==
    /\ Len(page_state_tracking) <= TRACKING_KEEP
    /\ Len(page_state_history) <= TRACKING_KEEP

\* The validation-time snapshot of the page shown equals the one stored last.
SameSnapshot ==
    /\ last_page # 0
    /\ Url(last_page) = Url(page)
    /\ HtmlHash(last_page) = HtmlHash(page)

\* A Validating phase that is not skipped.
Validates ==
    /\ pc = "validate_step"
    /\ overall_status \notin {"completed", "error"}
    /\ current_step_index < Len(steps)

C34_DecisionReadsFreshVerdict ==
    (/\ pc = "decide"
     /\ overall_status \notin {"completed", "error"}
     /\ current_step_index < Len(steps))
    => validation_node = node_executions

\* Planning short-circuited on a stuck page and left its forced verdict; the
\* Validating phase of the cycle replaced it with the Planner's verdict, which
\* the decision reads.
C34_Witness ==
    /\ pc = "decide"
    /\ overall_status = "running"
    /\ page_stuck_detected = "yes"
    /\ current_substep_index >= STUCK_MIN_SUBSTEP
    /\ last_validation = Verdict(FALSE, 90)
    /\ validation_node = node_executions

\* C35: an Acting phase that runs a script runs the script of a substep
\* planned in its own cycle, one that no earlier Acting phase has run.
C35_EachSubstepExecutedOnce ==
    [][(/\ pc = "execute_substep"
        /\ RunOpen
        /\ consecutive_failures < FAILURE_BREAKER
        /\ current_substep_id # "none"
        /\ script_stored
        /\ script_run' = "ran")
       => script_run = "none"]_vars

\* C33: every access to the browser driver through the page and locator
\* wrappers is executed on the worker thread, none on the engine's thread.
C33_DriverOnlyOnWorker == engine_calls = <<>>

\* C36: every index in completed_steps is smaller than current_step_index,
\* so the current step is never a completed one: the already-completed
\* error of the Planning phase is never set, rule 4 never decides, and a step
\* advance never skips a step.  (With the steps before the current one all
\* completed at the start of every cycle.)
C36_CompletedStepsAreBehind ==
    /\ \A i \in 1..Len(completed_steps) : completed_steps[i] < current_step_index
    /\ ~InList(current_step_index, completed_steps)
    /\ error_message # "already_completed"
    /\ LaterCycle => CycleStart

\* Two steps are completed, the first by the login skip, and the run is at
\* the end of its list.
C36_Witness ==
    /\ steps = <<"login", "other">>
    /\ completed_steps = <<0, 1>>
    /\ current_step_index = 2

\* C37: consecutive_failures never exceeds 3: a decision taken with 3
\* failures advances the step, which resets the counter, so a cycle starts
\* with fewer than 3 and neither the breaker of the Decision Engine nor the
\* abort of the Acting phase (both at 5) is reached.
C37_FailuresNeverPassThree ==
    /\ consecutive_failures <= FAILURE_ADVANCE
    /\ (Decided /\ consecutive_failures >= FAILURE_ADVANCE)
          => pc = "move_to_next_step"
    /\ error_message # "failures"
    /\ LaterCycle => (/\ consecutive_failures < FAILURE_ADVANCE
                      /\ last_result # "fail" => consecutive_failures = 0)

\* A third failure in a row was counted and the decision is to advance.
C37_Witness ==
    /\ pc = "move_to_next_step"
    /\ consecutive_failures = FAILURE_ADVANCE
    /\ last_result = "fail"
    /\ current_substep_index < MAX_SUBSTEPS_PER_STEP

\* C38: current_substep_index never exceeds 10, so a step has at most 11
\* Acting phases (one per index 0..10): a decision taken at index 10
\* advances or finishes.
C38_SubstepIndexBounded ==
    /\ current_substep_index <= MAX_SUBSTEPS_PER_STEP
    /\ (Decided /\ current_substep_index >= MAX_SUBSTEPS_PER_STEP)
          => pc # "continue_substeps"

\* The eleventh Acting phase of a step has run and the decision is to advance.
C38_Witness ==
    /\ pc = "move_to_next_step"
    /\ current_substep_index = MAX_SUBSTEPS_PER_STEP
    /\ script_run = "ran"
    /\ overall_status = "running"

\* C39: the final status failed is never produced: the cleanup node leaves
\* passed or error, and so does the report.
C39_NeverFailed ==
    /\ report_status # "failed"
    /\ pc = "END" => overall_status \in {"passed", "error"}

\* C40: a run executes at most RECURSION_LIMIT (100) graph nodes.  A run
\* that needs one more node fails in the graph invocation instead of running
\* it; run() then calls cleanup, which closes the session as far as stop()
\* gets, and returns a report with status error and total_steps and
\* total_substeps 0, leaving the remaining steps where they were; nothing
\* runs after the report.
C40_RunStopsAtTheLimit ==
    [][/\ node_executions' <= RECURSION_LIMIT
       /\ (pc \in GraphNodes /\ node_executions >= RECURSION_LIMIT)
             => pc' = "except"
       /\ pc = "except"
             => /\ pc' = "returned"
                /\ report_status' = "error"
                /\ report_totals'.total_steps = 0
                /\ report_totals'.total_substeps = 0
                /\ playwright_wrapper = "started"
                      => \E stop \in StopOutcomes :
                            open_resources' = ResourcesAfterStop(stop)
                /\ current_step_index' = current_step_index
                /\ completed_steps' = completed_steps
                /\ node_executions' = node_executions
       /\ pc # "returned"]_vars

\* C40 witness: a run has returned the error report with zero counts after
\* RECURSION_LIMIT nodes, with its session closed and a step still to do.
C40_Witness ==
    /\ pc = "returned"
    /\ node_executions = RECURSION_LIMIT
    /\ overall_status = "running"
    /\ current_step_index < Len(steps)
    /\ report_status = "error"
    /\ report_totals = [total_steps |-> 0, total_substeps |-> 0]
    /\ playwright_wrapper = "stopped"
    /\ open_resources = {}

====
